---- MODULE Spec2Model ----
(***************************************************************************)
(* URMS depot logistics assistant: the SQLite record store and the domain  *)
(* helpers of urms_depot_ui_pro.py ("pro") and urms_depot_ui.py ("basic"). *)
(*                                                                         *)
(* Text is a sequence of one-character strings.  A table is the sequence   *)
(* of its rows in rowid order.  None is the empty sequence.                *)
(***************************************************************************)
EXTENDS Integers, Sequences, FiniteSets

VARIABLES
    app,                \* which of the two programs runs: "pro" or "basic"
    now,                \* the system clock read by datetime.utcnow()
    rake_events,        \* table rake_events
    truck_assignments,  \* table truck_assignments
    cases,              \* table cases
    activity_log,       \* table activity_log (pro only)
    last,               \* the last call: its name, arguments, outcome, return value
    nOps,               \* number of writing calls made so far
    codec,              \* a run of the wagon ledger codec
    risk,               \* a run of the risk estimator
    eta,                \* a run of the ETA predictor
    conc                \* concurrent writers: their calls in progress and the commits made

storeVars == <<app, now, rake_events, truck_assignments, cases, activity_log, last, nOps>>
vars == <<app, now, rake_events, truck_assignments, cases, activity_log, last, nOps, codec, risk, eta, conc>>

-----------------------------------------------------------------------------
(* Bounds *)

\* writing calls per run
MaxOps == 2
\* clock ticks per run
MaxTime == 1

-----------------------------------------------------------------------------
(* Generic helpers *)

Range(s) == {s[i] : i \in DOMAIN s}

Min(a, b) == IF a < b THEN a ELSE b

\* the first n elements of s (SQL LIMIT n, Python s[:n])
Take(s, n) == SubSeq(s, 1, Min(n, Len(s)))

\* all orderings of the rows of a table
RowOrders(s) ==
    {p \in [DOMAIN s -> DOMAIN s] : \A i, j \in DOMAIN s : i # j => p[i] # p[j]}

None == <<>>

-----------------------------------------------------------------------------
(* Timestamps.  sqlite3's default adapter stores a datetime as the text of *)
(* isoformat(" "): fixed-width fields down to the second, and a fraction   *)
(* that is left out when the microsecond is 0.  A clock value t is         *)
(* second t \div 2, microsecond t % 2; the stored text is <<second>> or    *)
(* <<second, microsecond>>.  TIMESTAMP columns keep the text, and ORDER BY *)
(* compares it as text: position by position, a proper prefix first.       *)

adapt_datetime(t) == IF t % 2 = 0 THEN <<t \div 2>> ELSE <<t \div 2, t % 2>>

utcnow == adapt_datetime(now)

RECURSIVE TextLess(_, _)
TextLess(a, b) ==
    IF a = <<>> THEN b # <<>>
    ELSE IF b = <<>> THEN FALSE
    ELSE IF Head(a) # Head(b) THEN Head(a) < Head(b)
    ELSE TextLess(Tail(a), Tail(b))

\* pandas parse_dates: the datetime a stored text stands for, as a clock value
parse_dates(txt) == IF Len(txt) = 1 THEN 2 * txt[1] ELSE 2 * txt[1] + txt[2]

-----------------------------------------------------------------------------------------------------------------------------------------------------
(* Identifiers.  str(uuid.uuid4()) is 36 characters, 8-4-4-4-12 with the   *)
(* version digit 4.  The generator is random.  Two full values are taken   *)
(* never to coincide (122 random bits): the value drawn for row n of a     *)
(* table carries n in its last 12 characters.  The first 8 characters (32  *)
(* bits) of two values may coincide.  Where the whole value is the key     *)
(* (activity_log.id, truck_assignments.id) its first 8 characters decide   *)
(* nothing and one digit stands for them all; where only the first 8       *)
(* characters are kept (cases.case_id) they are any of FragDigits.         *)

FragDigits == {"0", "f"}

HexDigits == <<"0", "1", "2", "3", "4", "5", "6", "7", "8", "9",
               "a", "b", "c", "d", "e", "f">>

MkUuid(f, n) ==
    [i \in 1..36 |->
        IF i \in {9, 14, 19, 24} THEN "-"
        ELSE IF i = 15 THEN "4"
        ELSE IF i = 20 THEN "a"
        ELSE IF i <= 8 THEN f
        ELSE HexDigits[(n % 16) + 1]]

\* the values str(uuid.uuid4()) can return when `table` holds the earlier draws
uuid4(table, frags) == {MkUuid(f, Len(table)) : f \in frags}

CasePrefix == <<"C", "A", "S", "E", "-">>

-----
(* Inputs the presentation layer supplies *)

RakeIds == {"R1", "R2"}

\* ledger texts of the form format_wagon_details gives for the demo wagons
Ledger1 == <<"W", "1", ":", "P">>
Ledger2 == <<"W", "1", ":", "U", ";", "W", "2", ":", "P">>

RakeData ==
    { [fnr |-> "F1", current_station |-> "PLANT-01", eta_iso |-> "E1",
       wagon_details |-> Ledger1, raw |-> ""],
      [fnr |-> "F2", current_station |-> "PLANT-02", eta_iso |-> "E2",
       wagon_details |-> Ledger2, raw |-> "x"] }

TruckLists == {<<"TRK-101", "TRK-102">>}

CaseTypes == {"SHORTAGE"}

\* ",".join(truck_ids)
RECURSIVE JoinComma(_)
JoinComma(ids) ==
    IF ids = <<>> THEN <<>>
    ELSE IF Len(ids) = 1 THEN <<ids[1]>>
    ELSE <<ids[1], ",">> \o JoinComma(Tail(ids))

-----------------------------------------------------------------------------
(* SQL statements *)

\* INSERT INTO t ...: fails on a row with the same primary key
PkConflict(table, key, k) == \E i \in DOMAIN table : table[i][key] = k

\* a table whose key column is not declared PRIMARY KEY: the row is added
InsertOrReplace_nokey(table, key, row) == Append(table, row)

\* DELETE without a WHERE clause before the INSERT: every stored row goes
InsertOrReplace_clear(table, key, row) == <<row>>

\* INSERT OR REPLACE INTO t ...: the rows with the same primary key are
\* deleted, then the new row is stored with a new rowid
InsertOrReplace(table, key, row) ==
    SelectSeq(table, LAMBDA r : r[key] # row[key]) \o <<row>>

\* ORDER BY col ASC in place of DESC
OrderByAsc(table, col) ==
    { [i \in DOMAIN table |-> table[p[i]]] : p \in
        {q \in RowOrders(table) :
            \A i, j \in DOMAIN table :
                i < j => ~TextLess(table[q[j]][col], table[q[i]][col])} }

\* SELECT * FROM t ORDER BY col DESC: every order of the rows in which no row
\* comes before a row whose col is greater; the order of equal rows is open
OrderByDesc(table, col) ==
    { [i \in DOMAIN table |-> table[p[i]]] : p \in
        {q \in RowOrders(table) :
            \A i, j \in DOMAIN table :
                i < j => ~TextLess(table[q[i]][col], table[q[j]][col])} }

-----------------------------------------------------------------------------------------------------------------------------------------------------
(* Store operations *)

\* log_activity: one INSERT into activity_log, committed on its own
LogRow(u, level, source, message) ==
    [id |-> u, ts |-> utcnow, level |-> level, source |-> source, message |-> message]

\* the INSERT is never committed
log_activity_uncommitted(level, source, message) == activity_log' = activity_log

log_activity(level, source, message) ==
    \E u \in uuid4(activity_log, {"0"}) :
        /\ ~PkConflict(activity_log, "id", u)
        /\ activity_log' = Append(activity_log, LogRow(u, level, source, message))

\* the call that ends a writing operation: pro logs, basic has no log
AfterCommit(level, source, message) ==
    IF app = "pro"
    THEN log_activity(level, source, message)
    ELSE activity_log' = activity_log

RakeRow(rake_id, d) ==
    [rake_id |-> rake_id, fnr |-> d.fnr, created_ts |-> utcnow,
     current_station |-> d.current_station, eta_iso |-> d.eta_iso,
     wagon_details |-> d.wagon_details, raw |-> d.raw]

db_insert_rake(rake_id, d) ==
    /\ nOps < MaxOps
    /\ rake_events' = InsertOrReplace(rake_events, "rake_id", RakeRow(rake_id, d))
    /\ AfterCommit("INFO", "FOIS_SIM", <<"Inserted/Updated rake", rake_id>>)
    /\ last' = [op |-> "db_insert_rake", rake_id |-> rake_id, data |-> d,
                status |-> "ok", ret |-> None,
                before |-> SelectSeq(rake_events, LAMBDA r : r.rake_id = rake_id)]
    /\ nOps' = nOps + 1
    /\ UNCHANGED <<app, now, truck_assignments, cases, codec, risk, eta, conc>>

\* no WHERE clause: the first stored row, whatever its rake_id
db_get_rake_nowhere(rake_id) ==
    /\ last' = [op |-> "db_get_rake", rake_id |-> rake_id, status |-> "ok",
                ret |-> IF rake_events # <<>> THEN <<rake_events[1]>> ELSE None]
    /\ UNCHANGED <<app, now, rake_events, truck_assignments, cases, activity_log,
                   nOps, codec, risk, eta, conc>>

db_get_rake(rake_id) ==
    /\ last' = [op |-> "db_get_rake", rake_id |-> rake_id, status |-> "ok",
                ret |-> IF PkConflict(rake_events, "rake_id", rake_id)
                        THEN <<(CHOOSE r \in Range(rake_events) : r.rake_id = rake_id)>>
                        ELSE None]
    /\ UNCHANGED <<app, now, rake_events, truck_assignments, cases, activity_log,
                   nOps, codec, risk, eta, conc>>

AssignmentRow(task_id, rake_id, truck_ids, lane_from, reason) ==
    [id |-> task_id, rake_id |-> rake_id, truck_ids |-> JoinComma(truck_ids),
     lane_from |-> lane_from, reason |-> reason, created_ts |-> utcnow]

\* INSERT OR REPLACE keyed on rake_id, as in db_insert_rake
db_insert_assignment_replace(rake_id, truck_ids, lane_from, reason) ==
    /\ nOps < MaxOps
    /\ \E task_id \in uuid4(truck_assignments, {"0"}) :
        /\ truck_assignments' = InsertOrReplace(truck_assignments, "rake_id",
                AssignmentRow(task_id, rake_id, truck_ids, lane_from, reason))
        /\ last' = [op |-> "db_insert_assignment", rake_id |-> rake_id,
                    status |-> "ok", ret |-> task_id,
                    existed |-> PkConflict(rake_events, "rake_id", rake_id)]
    /\ AfterCommit("INFO", "ASSIGN", <<"Assigned", Len(truck_ids), "trucks to", rake_id>>)
    /\ nOps' = nOps + 1
    /\ UNCHANGED <<app, now, rake_events, cases, codec, risk, eta, conc>>

db_insert_assignment(rake_id, truck_ids, lane_from, reason) ==
    /\ nOps < MaxOps
    /\ \E task_id \in uuid4(truck_assignments, {"0"}) :
        /\ ~PkConflict(truck_assignments, "id", task_id)
        /\ truck_assignments' = Append(truck_assignments,
                AssignmentRow(task_id, rake_id, truck_ids, lane_from, reason))
        /\ last' = [op |-> "db_insert_assignment", rake_id |-> rake_id,
                    status |-> "ok", ret |-> task_id,
                    existed |-> PkConflict(rake_events, "rake_id", rake_id)]
    /\ AfterCommit("INFO", "ASSIGN", <<"Assigned", Len(truck_ids), "trucks to", rake_id>>)
    /\ nOps' = nOps + 1
    /\ UNCHANGED <<app, now, rake_events, cases, codec, risk, eta, conc>>

CaseRow(case_id, rake_id, wagon_no, case_type, reported_by, details) ==
    [case_id |-> case_id, rake_id |-> rake_id, wagon_no |-> wagon_no,
     case_type |-> case_type, reported_by |-> reported_by,
     reported_ts |-> utcnow, details |-> details]

\* "CASE-" + str(uuid.uuid4())[:8]
CaseId(u) == CasePrefix \o SubSeq(u, 1, 8)

\* the INSERT raises sqlite3.IntegrityError on a case_id already stored: nothing
\* is committed, log_activity is not reached, the exception leaves the call
db_insert_case(rake_id, wagon_no, case_type, reported_by, details) ==
    /\ nOps < MaxOps
    /\ \E u \in uuid4(cases, FragDigits) :
        LET case_id == CaseId(u) IN
        IF PkConflict(cases, "case_id", case_id)
        THEN /\ last' = [op |-> "db_insert_case", rake_id |-> rake_id,
                         status |-> "IntegrityError", ret |-> None,
                         existed |-> PkConflict(rake_events, "rake_id", rake_id)]
             /\ UNCHANGED <<cases, activity_log, nOps>>
        ELSE /\ cases' = Append(cases,
                    CaseRow(case_id, rake_id, wagon_no, case_type, reported_by, details))
             /\ AfterCommit("WARN", "CASE",
                    <<case_type, "for", rake_id, ":", wagon_no, "by", reported_by>>)
             /\ last' = [op |-> "db_insert_case", rake_id |-> rake_id,
                         status |-> "ok", ret |-> case_id,
                         existed |-> PkConflict(rake_events, "rake_id", rake_id)]
             /\ nOps' = nOps + 1
    /\ UNCHANGED <<app, now, rake_events, truck_assignments, codec, risk, eta, conc>>

\* pandas read_sql_query(..., parse_dates=[col]): the rows, col parsed
ReadFrame(rows, col) ==
    [i \in DOMAIN rows |-> [rows[i] EXCEPT ![col] = parse_dates(rows[i][col])]]

\* pro: SELECT * FROM truck_assignments ORDER BY created_ts DESC LIMIT 50
db_get_assignments_df ==
    /\ app = "pro"
    /\ \E rows \in OrderByDesc(truck_assignments, "created_ts") :
        last' = [op |-> "db_get_assignments_df", status |-> "ok",
                 ret |-> ReadFrame(Take(rows, 50), "created_ts")]
    /\ UNCHANGED <<app, now, rake_events, truck_assignments, cases, activity_log,
                   nOps, codec, risk, eta, conc>>

\* basic: SELECT * FROM truck_assignments, a scan of the table in rowid order
db_get_assignments ==
    /\ app = "basic"
    /\ last' = [op |-> "db_get_assignments", status |-> "ok",
                ret |-> ReadFrame(truck_assignments, "created_ts")]
    /\ UNCHANGED <<app, now, rake_events, truck_assignments, cases, activity_log,
                   nOps, codec, risk, eta, conc>>

\* pro: SELECT * FROM cases ORDER BY reported_ts DESC LIMIT 100
db_get_cases_df ==
    /\ app = "pro"
    /\ \E rows \in OrderByDesc(cases, "reported_ts") :
        last' = [op |-> "db_get_cases_df", status |-> "ok",
                 ret |-> ReadFrame(Take(rows, 100), "reported_ts")]
    /\ UNCHANGED <<app, now, rake_events, truck_assignments, cases, activity_log,
                   nOps, codec, risk, eta, conc>>

\* basic: SELECT * FROM cases, a scan of the table in rowid order
db_get_cases ==
    /\ app = "basic"
    /\ last' = [op |-> "db_get_cases", status |-> "ok",
                ret |-> ReadFrame(cases, "reported_ts")]
    /\ UNCHANGED <<app, now, rake_events, truck_assignments, cases, activity_log,
                   nOps, codec, risk, eta, conc>>

\* pro: SELECT * FROM activity_log ORDER BY ts DESC LIMIT ?
db_get_activity_df(limit) ==
    /\ app = "pro"
    /\ \E rows \in OrderByDesc(activity_log, "ts") :
        last' = [op |-> "db_get_activity_df", status |-> "ok",
                 ret |-> ReadFrame(Take(rows, limit), "ts")]
    /\ UNCHANGED <<app, now, rake_events, truck_assignments, cases, activity_log,
                   nOps, codec, risk, eta, conc>>

\* the clock moves on between two calls
Tick ==
    /\ now < MaxTime
    /\ now' = now + 1
    /\ UNCHANGED <<app, rake_events, truck_assignments, cases, activity_log, last,
                   nOps, codec, risk, eta, conc>>

-----------------------------------------------------------------------------
(* The store: either program, started on an empty database *)

Idle == [pc |-> "idle"]

Init ==
    /\ app \in {"pro", "basic"}
    /\ now = 0
    /\ rake_events = <<>>
    /\ truck_assignments = <<>>
    /\ cases = <<>>
    /\ activity_log = <<>>
    /\ last = [op |-> "init_db", status |-> "ok", ret |-> None]
    /\ nOps = 0
    /\ codec = Idle
    /\ risk = Idle
    /\ eta = Idle
    /\ conc = Idle

Next ==
    \/ Tick
    \/ \E rake_id \in RakeIds, d \in RakeData : db_insert_rake(rake_id, d)
    \/ \E rake_id \in RakeIds : db_get_rake(rake_id)
    \/ \E rake_id \in RakeIds, truck_ids \in TruckLists :
            db_insert_assignment(rake_id, truck_ids, "Yard-A", "Resolve backlog")
    \/ \E rake_id \in RakeIds, case_type \in CaseTypes :
            db_insert_case(rake_id, "W1", case_type, "depot_user_01", "Auto note")
    \/ db_get_assignments_df
    \/ db_get_assignments
    \/ db_get_cases_df
    \/ db_get_cases
    \/ db_get_activity_df(20)

Spec == Init /\ [][Next]_vars

-----------------------------------------------------------------------------
(* Concurrent writers.  Each writer is a process that calls db_insert_rake *)
(* once, each with a connection of its own.  SQLite lets one connection at *)
(* a time write: execute() of an INSERT takes the write lock of the        *)
(* database file and commit() makes the change visible and gives the lock  *)
(* back; a connection that does not get the lock within its timeout raises *)
(* sqlite3.OperationalError ("database is locked").  conc.commits is the   *)
(* history of the committed upserts, in commit order.                      *)

Writers == {"w1", "w2"}

NoWriter == "none"

\* writer w moves to pc
Goto(w, pc) == [conc EXCEPT !.writers[w].pc = pc]

\* cur.execute("INSERT OR REPLACE INTO rake_events ...") with the lock free
WriterExecute(w, rake_id, d) ==
    /\ conc.writers[w].pc = "idle"
    /\ conc.lock = NoWriter
    /\ conc' = [conc EXCEPT !.lock = w,
                            !.writers[w] = [pc |-> "executed", rake_id |-> rake_id,
                                            data |-> d, row |-> RakeRow(rake_id, d)]]
    /\ UNCHANGED <<storeVars, codec, risk, eta>>

\* the same with the lock held by the other writer until the timeout: the
\* call raises, nothing is stored
WriterBusy(w, rake_id, d) ==
    /\ conc.writers[w].pc = "idle"
    /\ conc.lock \notin {NoWriter, w}
    /\ conc' = [conc EXCEPT !.writers[w] = [pc |-> "failed", rake_id |-> rake_id,
                                            data |-> d, row |-> None]]
    /\ UNCHANGED <<storeVars, codec, risk, eta>>

\* an UPDATE of the ledger column alone when the rake is stored already
WriterCommit_merge(w) ==
    /\ conc.writers[w].pc = "executed"
    /\ rake_events' =
          IF PkConflict(rake_events, "rake_id", conc.writers[w].rake_id)
          THEN [i \in DOMAIN rake_events |->
                   IF rake_events[i].rake_id = conc.writers[w].rake_id
                   THEN [rake_events[i] EXCEPT
                            !.wagon_details = conc.writers[w].row.wagon_details]
                   ELSE rake_events[i]]
          ELSE Append(rake_events, conc.writers[w].row)
    /\ conc' = [conc EXCEPT !.lock = NoWriter,
                            !.writers[w].pc = "committed",
                            !.commits = Append(@, [writer |-> w,
                                                   row |-> conc.writers[w].row])]
    /\ UNCHANGED <<app, now, truck_assignments, cases, activity_log, last, nOps,
                   codec, risk, eta>>

\* conn.commit(); conn.close(): the upsert is in the store
WriterCommit(w) ==
    /\ conc.writers[w].pc = "executed"
    /\ rake_events' = InsertOrReplace(rake_events, "rake_id", conc.writers[w].row)
    /\ conc' = [conc EXCEPT !.lock = NoWriter,
                            !.writers[w].pc = "committed",
                            !.commits = Append(@, [writer |-> w,
                                                   row |-> conc.writers[w].row])]
    /\ UNCHANGED <<app, now, truck_assignments, cases, activity_log, last, nOps,
                   codec, risk, eta>>

\* urms_depot_ui.py: db_insert_rake returns after the commit
WriterReturn(w) ==
    /\ app = "basic"
    /\ conc.writers[w].pc = "committed"
    /\ conc' = Goto(w, "done")
    /\ UNCHANGED <<storeVars, codec, risk, eta>>

\* log_activity: cur.execute("INSERT INTO activity_log ...") with the lock free
WriterLogExecute(w) ==
    /\ app = "pro"
    /\ conc.writers[w].pc = "committed"
    /\ conc.lock = NoWriter
    /\ conc' = [Goto(w, "log_executed") EXCEPT !.lock = w]
    /\ UNCHANGED <<storeVars, codec, risk, eta>>

\* the failed log insert takes the committed rake row back with it
WriterLogBusy_rollback(w) ==
    /\ app = "pro"
    /\ conc.writers[w].pc = "committed"
    /\ conc.lock \notin {NoWriter, w}
    /\ rake_events' = SelectSeq(rake_events,
                                LAMBDA r : r.rake_id # conc.writers[w].rake_id)
    /\ conc' = Goto(w, "log_failed")
    /\ UNCHANGED <<app, now, truck_assignments, cases, activity_log, last, nOps,
                   codec, risk, eta>>

\* log_activity with the lock held by the other writer until the timeout:
\* the exception leaves db_insert_rake, whose upsert is committed
WriterLogBusy(w) ==
    /\ app = "pro"
    /\ conc.writers[w].pc = "committed"
    /\ conc.lock \notin {NoWriter, w}
    /\ conc' = Goto(w, "log_failed")
    /\ UNCHANGED <<storeVars, codec, risk, eta>>

\* log_activity: conn.commit(); conn.close(), and db_insert_rake returns
WriterLogCommit(w) ==
    /\ conc.writers[w].pc = "log_executed"
    /\ log_activity("INFO", "FOIS_SIM",
                    <<"Inserted/Updated rake", conc.writers[w].rake_id>>)
    /\ conc' = [Goto(w, "done") EXCEPT !.lock = NoWriter]
    /\ UNCHANGED <<app, now, rake_events, truck_assignments, cases, last, nOps,
                   codec, risk, eta>>

InitWriters ==
    /\ app \in {"pro", "basic"}
    /\ now = 0
    /\ rake_events = <<>>
    /\ truck_assignments = <<>>
    /\ cases = <<>>
    /\ activity_log = <<>>
    /\ last = [op |-> "init_db", status |-> "ok", ret |-> None]
    /\ nOps = 0
    /\ codec = Idle
    /\ risk = Idle
    /\ eta = Idle
    /\ conc = [pc |-> "running", writers |-> [w \in Writers |-> [pc |-> "idle"]],
               lock |-> NoWriter, commits |-> <<>>]

NextWriters ==
    \/ Tick
    \/ \E w \in Writers, rake_id \in RakeIds, d \in RakeData :
            WriterExecute(w, rake_id, d)
    \/ \E w \in Writers, rake_id \in RakeIds, d \in RakeData :
            WriterBusy(w, rake_id, d)
    \/ \E w \in Writers : WriterCommit(w)
    \/ \E w \in Writers : WriterReturn(w)
    \/ \E w \in Writers : WriterLogExecute(w)
    \/ \E w \in Writers : WriterLogBusy(w)
    \/ \E w \in Writers : WriterLogCommit(w)

SpecWriters == InitWriters /\ [][NextWriters]_vars

-----------------------------------------------------------------------------
(* Python str methods, on text as a sequence of characters *)

isspace(c) == c = " "

RECURSIVE lstrip(_)
lstrip(s) == IF s # <<>> /\ isspace(Head(s)) THEN lstrip(Tail(s)) ELSE s

RECURSIVE rstrip(_)
rstrip(s) ==
    IF s # <<>> /\ isspace(s[Len(s)]) THEN rstrip(SubSeq(s, 1, Len(s) - 1)) ELSE s

strip(s) == rstrip(lstrip(s))

\* c in s
Contains(s, c) == \E i \in DOMAIN s : s[i] = c

\* s.find(c) + 1: the first position of c in s, 0 when there is none
Find(s, c) ==
    IF Contains(s, c)
    THEN CHOOSE i \in DOMAIN s : s[i] = c /\ \A j \in 1..(i - 1) : s[j] # c
    ELSE 0

\* s.split(sep)
RECURSIVE split(_, _)
split(s, sep) ==
    LET i == Find(s, sep) IN
    IF i = 0 THEN <<s>>
    ELSE <<SubSeq(s, 1, i - 1)>> \o split(SubSeq(s, i + 1, Len(s)), sep)

\* s.split(sep, 1)
split1(s, sep) ==
    LET i == Find(s, sep) IN
    IF i = 0 THEN <<s>>
    ELSE <<SubSeq(s, 1, i - 1), SubSeq(s, i + 1, Len(s))>>

\* sep.join(parts)
RECURSIVE join(_, _)
join(sep, parts) ==
    IF parts = <<>> THEN <<>>
    ELSE IF Len(parts) = 1 THEN parts[1]
    ELSE parts[1] \o <<sep>> \o join(sep, Tail(parts))

-----------------------------------------------------------------------------
(* Wagon ledger codec *)

\* the two sides of an entry kept as they are, untrimmed
RECURSIVE ParseParts_nostrip(_)
ParseParts_nostrip(parts) ==
    IF parts = <<>> THEN <<>>
    ELSE LET part == Head(parts) IN
         IF Contains(part, ":")
         THEN LET ws == split1(part, ":") IN
              <<[wagon_no |-> ws[1], status |-> ws[2]]>>
                  \o ParseParts_nostrip(Tail(parts))
         ELSE ParseParts_nostrip(Tail(parts))

\* the loop body of parse_wagon_details over the parts of text.split(";")
RECURSIVE ParseParts(_)
ParseParts(parts) ==
    IF parts = <<>> THEN <<>>
    ELSE LET part == Head(parts) IN
         IF Contains(part, ":")
         THEN LET ws == split1(part, ":") IN
              <<[wagon_no |-> strip(ws[1]), status |-> strip(ws[2])]>>
                  \o ParseParts(Tail(parts))
         ELSE ParseParts(Tail(parts))

parse_wagon_details(text) ==
    IF text = <<>> THEN <<>> ELSE ParseParts(split(text, ";"))

\* "," as the separator of the entries
format_wagon_details_comma(items) ==
    join(",", [i \in DOMAIN items |-> items[i].wagon_no \o <<":">> \o items[i].status])

\* the status written before the wagon number
format_wagon_details_flipped(items) ==
    join(";", [i \in DOMAIN items |-> items[i].status \o <<":">> \o items[i].wagon_no])

format_wagon_details(items) ==
    join(";", [i \in DOMAIN items |-> items[i].wagon_no \o <<":">> \o items[i].status])

\* wagon numbers and statuses the codec is run on
Fields ==
    { <<>>, <<"W">>, <<" ">>, <<" ", "W">>, <<"W", " ">>, <<"W", " ", "W">>,
      <<"W", ":">>, <<";">> }

\* wagons per list
MaxWagons == 2

Wagons == [wagon_no : Fields, status : Fields]

WagonLists == UNION {[1..n -> Wagons] : n \in 0..MaxWagons}

CodecEncode ==
    /\ codec.pc = "start"
    /\ codec' = [codec EXCEPT !.pc = "encoded",
                              !.text = format_wagon_details(codec.items)]
    /\ UNCHANGED <<storeVars, risk, eta, conc>>

CodecDecode ==
    /\ codec.pc = "encoded"
    /\ codec' = [codec EXCEPT !.pc = "decoded",
                              !.out = parse_wagon_details(codec.text)]
    /\ UNCHANGED <<storeVars, risk, eta, conc>>

StoreIdle ==
    /\ app = "pro"
    /\ now = 0
    /\ rake_events = <<>>
    /\ truck_assignments = <<>>
    /\ cases = <<>>
    /\ activity_log = <<>>
    /\ last = [op |-> "init_db", status |-> "ok", ret |-> None]
    /\ nOps = 0

InitCodec ==
    /\ StoreIdle
    /\ risk = Idle
    /\ eta = Idle
    /\ conc = Idle
    /\ codec \in {[pc |-> "start", items |-> w, text |-> <<>>, out |-> <<>>] :
                    w \in WagonLists}

NextCodec == CodecEncode \/ CodecDecode

SpecCodec == InitCodec /\ [][NextCodec]_vars

-----------------------------------------------------------------------------
(* Stored ledger texts: the list view, the detail view, and the codec run  *)
(* on texts it did not write                                               *)

Lower ==
    <<"a", "b", "c", "d", "e", "f", "g", "h", "i", "j", "k", "l", "m", "n",
    "o", "p", "q", "r", "s", "t", "u", "v", "w", "x", "y", "z">>
Upper ==
    <<"A", "B", "C", "D", "E", "F", "G", "H", "I", "J", "K", "L", "M", "N",
    "O", "P", "Q", "R", "S", "T", "U", "V", "W", "X", "Y", "Z">>

\* s.upper()
upper(s) ==
    [i \in DOMAIN s |->
        IF \E k \in DOMAIN Lower : Lower[k] = s[i]
        THEN Upper[CHOOSE k \in DOMAIN Lower : Lower[k] = s[i]]
        ELSE s[i]]

UNLOADED == <<"U", "N", "L", "O", "A", "D", "E", "D">>

\* db_get_rakes_df, column pending_count
pending_count(t) ==
    LET parts == split(t, ";") IN
    Cardinality({i \in DOMAIN parts :
        /\ Contains(parts[i], ":")
        /\ upper(strip(split(parts[i], ":")[2])) # UNLOADED})

\* db_get_rakes_df, column unloaded_count
unloaded_count(t) ==
    LET parts == split(t, ";") IN
    Cardinality({i \in DOMAIN parts :
        /\ Contains(parts[i], ":")
        /\ upper(strip(split(parts[i], ":")[2])) = UNLOADED})

\* the counts of the detail view: <<pending, unloaded>>
detail_counts(w_items) ==
    << Cardinality({i \in DOMAIN w_items : upper(w_items[i].status) # UNLOADED}),
       Cardinality({i \in DOMAIN w_items : upper(w_items[i].status) = UNLOADED}) >>

\* the ';'-segments the stored texts are made of: well-formed ones, one with
\* whitespace and lower case, one with a ':' in the status, malformed ones
Segments ==
    { <<"W", "1", ":", "P", "E", "N", "D", "I", "N", "G">>,
      <<"W", "2", ":", "U", "N", "L", "O", "A", "D", "E", "D">>,
      <<" ", "W", "3", " ", ":", " ", "u", "n", "l", "o", "a", "d", "e", "d", " ">>,
      <<"W", "4", ":", "U", "N", "L", "O", "A", "D", "E", "D", ":", "x">>,
      <<"W", "5">>,
      <<>>,
      <<":">>,
      <<"W", "6", ":", ":", "U", "N", "L", "O", "A", "D", "E", "D">> }

\* segments per text
MaxSegments == 2

SegmentLists == UNION {[1..n -> Segments] : n \in 1..MaxSegments}

\* the detail view of a rake: the ledger parsed, its wagons counted
LedgerDetail ==
    /\ codec.pc = "stored"
    /\ LET w_items == parse_wagon_details(codec.text) IN
       codec' = [codec EXCEPT !.pc = "detailed", !.out = w_items,
                              !.detail = detail_counts(w_items)]
    /\ UNCHANGED <<storeVars, risk, eta, conc>>

\* the list view of the same rake
LedgerList ==
    /\ codec.pc = "detailed"
    /\ codec' = [codec EXCEPT !.pc = "listed",
                              !.list = <<pending_count(codec.text),
                                         unloaded_count(codec.text)>>]
    /\ UNCHANGED <<storeVars, risk, eta, conc>>

\* the parsed wagons written back as text
LedgerFormat ==
    /\ codec.pc = "listed"
    /\ codec' = [codec EXCEPT !.pc = "formatted",
                              !.text2 = format_wagon_details(codec.out)]
    /\ UNCHANGED <<storeVars, risk, eta, conc>>

\* and parsed again
LedgerReparse ==
    /\ codec.pc = "formatted"
    /\ codec' = [codec EXCEPT !.pc = "reparsed",
                              !.out2 = parse_wagon_details(codec.text2)]
    /\ UNCHANGED <<storeVars, risk, eta, conc>>

InitLedger ==
    /\ StoreIdle
    /\ risk = Idle
    /\ eta = Idle
    /\ conc = Idle
    /\ codec \in {[pc |-> "stored", segs |-> g, text |-> join(";", g), out |-> <<>>,
                    detail |-> <<>>, list |-> <<>>, text2 |-> <<>>, out2 |-> <<>>] :
                    g \in SegmentLists}

NextLedger == LedgerDetail \/ LedgerList \/ LedgerFormat \/ LedgerReparse

SpecLedger == InitLedger /\ [][NextLedger]_vars

-----------------------------------------------------------------------------
(* Risk estimator *)

\* >= in place of >
compute_d_and_w_risk_ge(pending_wagons) ==
    IF pending_wagons >= 30 THEN <<"HIGH", pending_wagons * 820>>
    ELSE IF pending_wagons >= 10 THEN <<"MEDIUM", pending_wagons * 490>>
    ELSE <<"LOW", 0>>

\* the two rates exchanged
compute_d_and_w_risk_swapped(pending_wagons) ==
    IF pending_wagons > 30 THEN <<"HIGH", pending_wagons * 490>>
    ELSE IF pending_wagons > 10 THEN <<"MEDIUM", pending_wagons * 820>>
    ELSE <<"LOW", 0>>

compute_d_and_w_risk(pending_wagons) ==
    IF pending_wagons > 30 THEN <<"HIGH", pending_wagons * 820>>
    ELSE IF pending_wagons > 10 THEN <<"MEDIUM", pending_wagons * 490>>
    ELSE <<"LOW", 0>>

\* the two HIGH actions in the other order
recommended_actions_for_rake_swapped(pending) ==
    LET r == compute_d_and_w_risk(pending)
        actions ==
            IF r[1] = "HIGH"
            THEN << [action |-> "notify_ha", detail |-> "Increase manpower by 3",
                     urgency |-> "HIGH"],
                    [action |-> "assign_trucks", detail |-> "Assign 5 trucks to Block 3",
                     urgency |-> "HIGH"] >>
            ELSE IF r[1] = "MEDIUM"
            THEN << [action |-> "notify_ha", detail |-> "Add 1 extra worker",
                     urgency |-> "MEDIUM"] >>
            ELSE << [action |-> "monitor", detail |-> "Continue monitoring",
                     urgency |-> "LOW"] >>
    IN  <<actions, r[1], r[2]>>

\* returns <<actions, risk, dem>>
recommended_actions_for_rake(pending) ==
    LET r == compute_d_and_w_risk(pending)
        actions ==
            IF r[1] = "HIGH"
            THEN << [action |-> "assign_trucks", detail |-> "Assign 5 trucks to Block 3",
                     urgency |-> "HIGH"],
                    [action |-> "notify_ha", detail |-> "Increase manpower by 3",
                     urgency |-> "HIGH"] >>
            ELSE IF r[1] = "MEDIUM"
            THEN << [action |-> "notify_ha", detail |-> "Add 1 extra worker",
                     urgency |-> "MEDIUM"] >>
            ELSE << [action |-> "monitor", detail |-> "Continue monitoring",
                     urgency |-> "LOW"] >>
    IN  <<actions, r[1], r[2]>>

\* largest pending count the estimator is run on
MaxPending == 33

RiskEstimate ==
    /\ risk.pc = "start"
    /\ risk' = [risk EXCEPT !.pc = "done",
                            !.rp = compute_d_and_w_risk(risk.p),
                            !.rq = compute_d_and_w_risk(risk.q)]
    /\ UNCHANGED <<storeVars, codec, eta, conc>>

\* the recommendations for the two pending counts of the run
Recommend ==
    /\ risk.pc \in {"start", "done"}
    /\ risk' = [pc |-> "recommended", p |-> risk.p, q |-> risk.q,
                rp |-> risk.rp, rq |-> risk.rq,
                ap |-> recommended_actions_for_rake(risk.p),
                aq |-> recommended_actions_for_rake(risk.q)]
    /\ UNCHANGED <<storeVars, codec, eta, conc>>

InitRisk ==
    /\ StoreIdle
    /\ codec = Idle
    /\ eta = Idle
    /\ conc = Idle
    /\ risk \in {[pc |-> "start", p |-> p, q |-> q, rp |-> <<>>, rq |-> <<>>] :
                   p \in 0..MaxPending, q \in 0..MaxPending}

NextRisk == RiskEstimate \/ Recommend

SpecRisk == InitRisk /\ [][NextRisk]_vars

-----------------------------------------------------------------------------
(* ETA predictor.  Python's float is IEEE 754 binary64: 53 significant     *)
(* bits, every operation rounded to the nearest value, ties to the even    *)
(* one.  A positive float is [m, e]: e the exponent of its first           *)
(* significant bit and m its 53 significant bits as five digits, the first *)
(* bit (a 1) and then four digits of 13 bits each, as the 53 bits do not   *)
(* fit one integer of TLC.                                                 *)

\* 2^13: the base of the digits of a float
Limb == 8192
\* digits of a float
Limbs == 5

\* floor(log2(n / t)) for positive integers n, t
RECURSIVE ilog2(_, _)
ilog2(n, t) ==
    IF n >= 2 * t THEN ilog2(n, 2 * t) + 1
    ELSE IF n < t THEN ilog2(2 * n, t) - 1
    ELSE 0

RECURSIVE Pow2(_)
Pow2(n) == IF n <= 0 THEN 1 ELSE 2 * Pow2(n - 1)

\* number of bits of n
RECURSIVE BitLen(_)
BitLen(n) == IF n = 0 THEN 0 ELSE BitLen(n \div 2) + 1

\* the next k digits of r / t for 0 <= r < t, followed by the remainder left
RECURSIVE LongDiv(_, _, _)
LongDiv(r, t, k) ==
    IF k = 0 THEN <<r>>
    ELSE <<(r * Limb) \div t>> \o LongDiv((r * Limb) % t, t, k - 1)

\* m + 1 one unit in digit i
RECURSIVE Inc(_, _)
Inc(m, i) ==
    IF i = 1 \/ m[i] < Limb - 1 THEN [m EXCEPT ![i] = @ + 1]
    ELSE Inc([m EXCEPT ![i] = 0], i - 1)

\* digits 1..i of m times k plus carry; the first digit is left as large as
\* it comes out
RECURSIVE MulLimbs(_, _, _, _)
MulLimbs(m, i, k, carry) ==
    IF i = 1 THEN <<m[1] * k + carry>>
    ELSE MulLimbs(m, i - 1, k, (m[i] * k + carry) \div Limb)
             \o <<(m[i] * k + carry) % Limb>>

\* the digits of p from the i-th on, with rem carried in from above, divided
\* by d, followed by the remainder left
RECURSIVE DivLimbs(_, _, _, _)
DivLimbs(p, i, rem, d) ==
    IF i > Len(p) THEN <<rem>>
    ELSE <<(rem * Limb + p[i]) \div d>>
             \o DivLimbs(p, i + 1, (rem * Limb + p[i]) % d, d)

\* the float nearest to the number that has the digits m (of exponent e)
\* followed by a rest: up says that the rest is above half a unit of the
\* last digit, or is half a unit and the last digit is odd
RoundNearestEven(m, e, up) ==
    LET r == IF up THEN Inc(m, Limbs) ELSE m IN
    IF r[1] > 1
    THEN [m |-> [i \in 1..Limbs |-> IF i = 1 THEN 1 ELSE 0], e |-> e + 1]
    ELSE [m |-> r, e |-> e]

\* n / t as Python computes it for positive integers (or floats of integer
\* value) n and t: the float nearest to the quotient
fdiv(n, t) ==
    LET e == ilog2(n, t)
        nn == n * Pow2(0 - e)
        tt == t * Pow2(e)
        q == LongDiv(nn - tt, tt, Limbs - 1)
        rem == q[Limbs]
        m == <<1>> \o SubSeq(q, 1, Limbs - 1)
    IN  RoundNearestEven(m, e,
            2 * rem > tt \/ (2 * rem = tt /\ m[Limbs] % 2 = 1))

\* x * k for a float x and a small positive integer k (itself a float):
\* the float nearest to the product
fmul(x, k) ==
    LET prod == MulLimbs(x.m, Limbs, k, 0)
        shift == BitLen(prod[1]) - 1
        d == Pow2(shift)
        q == DivLimbs(prod, 1, 0, d)
        rest == q[Limbs + 1]
        m == SubSeq(q, 1, Limbs)
    IN  RoundNearestEven(m, x.e + shift,
            2 * rest > d \/ (2 * rest = d /\ m[Limbs] % 2 = 1))

\* int(x) for a positive float x: the fraction is cut off
float_to_int(x) ==
    LET top == (x.m[1] * Limb + x.m[2]) * Limb + x.m[3]
        low == x.m[4] * Limb + x.m[5]
    IN  IF x.e < 0 THEN 0
        ELSE IF x.e <= 26 THEN top \div Pow2(26 - x.e)
        ELSE top * Pow2(x.e - 26) + low \div Pow2(52 - x.e)

simple_eta_predict(distance_km, avg_speed_kmph) ==
    LET speed == IF avg_speed_kmph <= 0 THEN 20 ELSE avg_speed_kmph IN
    float_to_int(fmul(fdiv(distance_km, speed), 60))

\* largest distance (km) and speed (km/h) the predictor is run on
MaxDistance == 150
MaxSpeed == 30

EtaPredict ==
    /\ eta.pc = "start"
    /\ eta' = [eta EXCEPT !.pc = "done",
                          !.mins = simple_eta_predict(eta.distance, eta.speed)]
    /\ UNCHANGED <<storeVars, codec, risk, conc>>

InitEta ==
    /\ StoreIdle
    /\ codec = Idle
    /\ risk = Idle
    /\ conc = Idle
    /\ eta \in {[pc |-> "start", distance |-> d, speed |-> v, mins |-> 0] :
                  d \in 1..MaxDistance, v \in (0 - 1)..MaxSpeed}

NextEta == EtaPredict

SpecEta == InitEta /\ [][NextEta]_vars

-----------------------------------------------------------------------------
(* Properties *)

IsPrefix(a, b) == Len(a) <= Len(b) /\ \A i \in DOMAIN a : a[i] = b[i]

RowsOf(table, key, k) == {i \in DOMAIN table : table[i][key] = k}

\* C1: the store holds at most one rake record per rake_id, and after a
\* create_rake(R, data) the record of R carries every field of data: a second
\* create_rake on R leaves one record, that of the second write.
C1_OneRecordLastWrite ==
    /\ \A R \in RakeIds : Cardinality(RowsOf(rake_events, "rake_id", R)) <= 1
    /\ last.op = "db_insert_rake" =>
        \E i \in DOMAIN rake_events :
            /\ rake_events[i].rake_id = last.rake_id
            /\ rake_events[i].fnr = last.data.fnr
            /\ rake_events[i].current_station = last.data.current_station
            /\ rake_events[i].eta_iso = last.data.eta_iso
            /\ rake_events[i].wagon_details = last.data.wagon_details
            /\ rake_events[i].raw = last.data.raw

\* a second create_rake on a rake_id whose stored record differs in every field
C1_Witness ==
    /\ last.op = "db_insert_rake"
    /\ last.before # <<>>
    /\ last.before[1].fnr # last.data.fnr
    /\ last.before[1].current_station # last.data.current_station
    /\ last.before[1].eta_iso # last.data.eta_iso
    /\ last.before[1].wagon_details # last.data.wagon_details
    /\ last.before[1].raw # last.data.raw

WellFormedField(f) == f # <<>> /\ ~Contains(f, ":") /\ ~Contains(f, ";")

WellFormed(w) ==
    \A i \in DOMAIN w : WellFormedField(w[i].wagon_no) /\ WellFormedField(w[i].status)

Trimmed(w) ==
    \A i \in DOMAIN w : strip(w[i].wagon_no) = w[i].wagon_no
                        /\ strip(w[i].status) = w[i].status

\* C2 (as amended): a wagon list whose wagon numbers and statuses are non-empty,
\* hold no ':' or ';' and have no leading or trailing whitespace decodes from
\* its encoding to itself; the empty list encodes to the empty text, which
\* decodes to the empty list.
C2_RoundTripTrimmed ==
    /\ (codec.pc = "decoded" /\ WellFormed(codec.items) /\ Trimmed(codec.items))
            => codec.out = codec.items
    /\ (codec.pc = "decoded" /\ codec.items = <<>>)
            => (codec.text = <<>> /\ codec.out = <<>>)

\* two different well-formed wagons, one with whitespace inside, decoded in order
C2_Witness ==
    /\ codec.pc = "decoded"
    /\ Len(codec.items) = 2
    /\ WellFormed(codec.items) /\ Trimmed(codec.items)
    /\ codec.items[1] # codec.items[2]
    /\ Contains(codec.items[1].wagon_no, " ")
    /\ codec.out = codec.items

\* C2 as stated: every wagon list whose wagon numbers and statuses are non-empty
\* and hold no ':' or ';' decodes from its encoding to itself.
C2_RoundTripAsStated ==
    (codec.pc = "decoded" /\ WellFormed(codec.items)) => codec.out = codec.items

\* C3: the estimator returns (HIGH, p*820) for p > 30, (MEDIUM, p*490) for
\* 10 < p <= 30 and (LOW, 0) for p <= 10; 0 and 10 are LOW, 11 and 30 MEDIUM,
\* 31 HIGH.
C3_Tiers ==
    risk.pc = "done" =>
        /\ risk.p > 30 => risk.rp = <<"HIGH", risk.p * 820>>
        /\ (10 < risk.p /\ risk.p <= 30) => risk.rp = <<"MEDIUM", risk.p * 490>>
        /\ risk.p <= 10 => risk.rp = <<"LOW", 0>>
        /\ risk.p \in {0, 10} => risk.rp[1] = "LOW"
        /\ risk.p \in {11, 30} => risk.rp[1] = "MEDIUM"
        /\ risk.p = 31 => risk.rp[1] = "HIGH"

\* the estimator has run on 30 and on 31
C3_Witness ==
    /\ risk.pc = "done"
    /\ risk.p = 30 /\ risk.rp = <<"MEDIUM", 14700>>
    /\ risk.q = 31 /\ risk.rq = <<"HIGH", 25420>>

\* C4: the projected cost never decreases as the pending count grows.
C4_CostMonotone ==
    (risk.pc = "done" /\ risk.p <= risk.q) => risk.rp[2] <= risk.rq[2]

\* the estimator has run on the two sides of a tier boundary
C4_Witness ==
    /\ risk.pc = "done"
    /\ risk.p = 10 /\ risk.q = 11
    /\ risk.rp[2] < risk.rq[2]

\* C5: create_assignment and create_case on a rake_id with no stored rake
\* succeed, return the generated identifier, and the row is stored under it.
C5_AbsentRakeSucceeds ==
    /\ (last.op = "db_insert_assignment" /\ ~last.existed) =>
            /\ last.status = "ok"
            /\ Cardinality(RowsOf(truck_assignments, "id", last.ret)) = 1
    /\ (last.op = "db_insert_case" /\ ~last.existed) =>
            /\ last.status = "ok"
            /\ Cardinality(RowsOf(cases, "case_id", last.ret)) = 1

SourceOf(op) ==
    CASE op = "db_insert_rake" -> "FOIS_SIM"
      [] op = "db_insert_assignment" -> "ASSIGN"
      [] op = "db_insert_case" -> "CASE"
      [] OTHER -> "none"

\* C6 (as amended): in the pro program every successful create_rake,
\* create_assignment and create_case appends one activity-log entry of its
\* own source, and no step updates or removes a log entry; the basic program
\* keeps no activity log.
C6_ProLogsEveryWrite ==
    [][ /\ IsPrefix(activity_log, activity_log')
        /\ (app = "pro" /\ nOps' = nOps + 1) =>
                /\ Len(activity_log') = Len(activity_log) + 1
                /\ activity_log'[Len(activity_log')].source = SourceOf(last'.op)
        /\ app = "basic" => activity_log' = <<>> ]_vars

\* pro: a case created after an earlier write, both logged
C6_Witness ==
    /\ app = "pro"
    /\ last.op = "db_insert_case" /\ last.status = "ok"
    /\ nOps = 2
    /\ Len(activity_log) = 2
    /\ activity_log[2].source = "CASE"

\* C6 as stated: the activity log holds at least one entry for each writing
\* operation performed, in either program.
C6_LogsEveryWrite == Len(activity_log) >= nOps

\* C7: a later create_rake with the same rake_id leaves created_at equal to
\* the value written by the first insert.
C7_CreatedAtKept ==
    (last.op = "db_insert_rake" /\ last.before # <<>>) =>
        \A i \in RowsOf(rake_events, "rake_id", last.rake_id) :
            rake_events[i].created_ts = last.before[1].created_ts

\* C8: a stored truck assignment and a stored exception case stay stored,
\* every field unchanged, through every step.
C8_AssignmentsCasesImmutable ==
    [][ /\ IsPrefix(truck_assignments, truck_assignments')
        /\ IsPrefix(cases, cases') ]_vars

\* an assignment of a rake, then a second write for the same rake
C8_Witness ==
    /\ last.op \in {"db_insert_rake", "db_insert_assignment"}
    /\ nOps = 2
    /\ \E i \in DOMAIN truck_assignments :
        /\ truck_assignments[i].rake_id = last.rake_id
        /\ truck_assignments[i].id # last.ret

\* C9: create_assignment and create_case never fail on a primary-key
\* collision, and a case identifier is "CASE-" followed by 8 characters.
C9_FreshIdentifiers ==
    /\ last.op \in {"db_insert_assignment", "db_insert_case"} => last.status = "ok"
    /\ \A i \in DOMAIN cases :
        /\ Len(cases[i].case_id) = Len(CasePrefix) + 8
        /\ SubSeq(cases[i].case_id, 1, Len(CasePrefix)) = CasePrefix

NewestFirst(rows, col) ==
    \A i, j \in DOMAIN rows : rows[i][col] > rows[j][col] => i < j

\* C10 (as amended): in the pro program the read-all operations on truck
\* assignments, exception cases and the activity log return their rows newest
\* first.
C10_ProNewestFirst ==
    /\ last.op = "db_get_assignments_df" => NewestFirst(last.ret, "created_ts")
    /\ last.op = "db_get_cases_df" => NewestFirst(last.ret, "reported_ts")
    /\ last.op = "db_get_activity_df" => NewestFirst(last.ret, "ts")

\* pro: two assignments of different times read back
C10_Witness ==
    /\ last.op = "db_get_assignments_df"
    /\ Len(last.ret) = 2
    /\ last.ret[1].created_ts > last.ret[2].created_ts

\* C10 as stated: the read-all operations on truck assignments, exception
\* cases and the activity log return their rows newest first, in either program.
C10_NewestFirst ==
    /\ last.op \in {"db_get_assignments_df", "db_get_assignments"} =>
            NewestFirst(last.ret, "created_ts")
    /\ last.op \in {"db_get_cases_df", "db_get_cases"} =>
            NewestFirst(last.ret, "reported_ts")
    /\ last.op = "db_get_activity_df" => NewestFirst(last.ret, "ts")

\* C11: the recommended actions are, for tier HIGH, exactly two, assign trucks
\* and then increase manpower, both of urgency HIGH; for MEDIUM exactly one,
\* add a worker, of urgency MEDIUM; for LOW exactly one, monitor, of urgency
\* LOW; two pending counts of the same tier get the same actions.
C11_ActionsByTier ==
    risk.pc = "recommended" =>
        LET tier == compute_d_and_w_risk(risk.p)[1]
            actions == risk.ap[1]
        IN  /\ risk.ap[2] = tier
            /\ tier = "HIGH" =>
                    /\ Len(actions) = 2
                    /\ actions[1].action = "assign_trucks"
                    /\ actions[1].detail = "Assign 5 trucks to Block 3"
                    /\ actions[2].action = "notify_ha"
                    /\ actions[2].detail = "Increase manpower by 3"
                    /\ actions[1].urgency = "HIGH" /\ actions[2].urgency = "HIGH"
            /\ tier = "MEDIUM" =>
                    /\ Len(actions) = 1
                    /\ actions[1].action = "notify_ha"
                    /\ actions[1].detail = "Add 1 extra worker"
                    /\ actions[1].urgency = "MEDIUM"
            /\ tier = "LOW" =>
                    /\ Len(actions) = 1
                    /\ actions[1].action = "monitor"
                    /\ actions[1].detail = "Continue monitoring"
                    /\ actions[1].urgency = "LOW"
            /\ tier = compute_d_and_w_risk(risk.q)[1] => risk.aq[1] = actions

\* two different pending counts of tier HIGH, recommended for
C11_Witness ==
    /\ risk.pc = "recommended"
    /\ risk.p = 31 /\ risk.q = 33
    /\ Len(risk.ap[1]) = 2
    /\ risk.aq[1] = risk.ap[1]
    /\ risk.ap[3] # risk.aq[3]

\* floor(distance / speed * 60) of the numbers themselves
EtaFloor(distance, speed) == (distance * 60) \div speed

\* C12: simple_eta_predict(distance, speed) is floor(distance / speed * 60)
\* for a positive integer distance and a speed > 0, and for a speed <= 0 it is
\* what simple_eta_predict(distance, 20) is; (150, 30) gives 300 and (150, 0)
\* gives 450.
C12_EtaFloor ==
    eta.pc = "done" =>
        /\ eta.speed > 0 => eta.mins = EtaFloor(eta.distance, eta.speed)
        /\ eta.speed <= 0 => eta.mins = simple_eta_predict(eta.distance, 20)
        /\ (eta.distance = 150 /\ eta.speed = 30) => eta.mins = 300
        /\ (eta.distance = 150 /\ eta.speed = 0) => eta.mins = 450

\* the positions of the segments that hold a ':'
WithColon(segs) == {i \in DOMAIN segs : Contains(segs[i], ":")}

\* the k-th of them
NthWithColon(segs, k) ==
    CHOOSE i \in WithColon(segs) : Cardinality({j \in WithColon(segs) : j < i}) = k - 1

\* C13: parse_wagon_details drops every ';'-segment without a ':' and gives
\* for every segment with a ':' exactly one entry, split at the first ':' and
\* trimmed on both sides, in the order of the segments; the decoded list is as
\* long as the number of segments that hold a ':'.
C13_ParseTolerant ==
    codec.pc \in {"detailed", "listed", "formatted", "reparsed"} =>
        /\ Len(codec.out) = Cardinality(WithColon(codec.segs))
        /\ \A k \in DOMAIN codec.out :
              LET seg == codec.segs[NthWithColon(codec.segs, k)]
                  c == Find(seg, ":")
              IN  /\ codec.out[k].wagon_no = strip(SubSeq(seg, 1, c - 1))
                  /\ codec.out[k].status = strip(SubSeq(seg, c + 1, Len(seg)))

\* a malformed segment dropped between two kept ones, the first one trimmed
C13_Witness ==
    /\ codec.pc = "detailed"
    /\ Len(codec.segs) = 2
    /\ ~Contains(codec.segs[1], ":")
    /\ codec.segs[1] # <<>>
    /\ codec.segs[2] # <<>>
    /\ codec.segs[2][1] = " "
    /\ Len(codec.out) = 1
    /\ codec.out[1] = [wagon_no |-> <<"W", "3">>,
                        status |-> <<"u", "n", "l", "o", "a", "d", "e", "d">>]

\* C18: the pending and unloaded counts of the list view (db_get_rakes_df)
\* are those of the detail view (parse_wagon_details) for every stored ledger
\* text.
C18_ListEqualsDetail ==
    codec.pc \in {"listed", "formatted", "reparsed"} => codec.list = codec.detail

\* C19: for every ledger text t, parse(format(parse(t))) = parse(t).
C19_ParseFormatParse ==
    codec.pc = "reparsed" => codec.out2 = codec.out

\* a text with whitespace and a ':' in a status, which is not written back as
\* it was
C19_Witness ==
    /\ codec.pc = "reparsed"
    /\ codec.text2 # codec.text
    /\ Len(codec.out) = 2
    /\ Contains(codec.out[1].status, ":")
    /\ codec.segs[2] # <<>>
    /\ codec.segs[2][1] = " "
    /\ codec.out2 = codec.out

\* C14: db_get_rake on a rake_id of which no record is stored returns None
\* and raises nothing, whatever else the store holds, and leaves the store as
\* it is.
C14_AbsentRakeNone ==
    [][(last' # last /\ last'.op = "db_get_rake") =>
          /\ <<rake_events, truck_assignments, cases, activity_log>>' =
                 <<rake_events, truck_assignments, cases, activity_log>>
          /\ ~PkConflict(rake_events, "rake_id", last'.rake_id) =>
                 (last'.status = "ok" /\ last'.ret = None)]_vars

\* a rake looked up in vain in a store that holds another rake and a case
C14_Witness ==
    /\ last.op = "db_get_rake"
    /\ last.ret = None
    /\ rake_events # <<>>
    /\ cases # <<>>

\* C17: a rake record is never deleted: a rake that is stored is stored after
\* every later step, db_get_rake on it returns a record of it, and the number
\* of stored rakes never decreases.
C17_RakeNeverDeleted ==
    [][/\ \A R \in RakeIds :
            PkConflict(rake_events, "rake_id", R) => PkConflict(rake_events', "rake_id", R)
       /\ Len(rake_events') >= Len(rake_events)
       /\ (last' # last /\ last'.op = "db_get_rake"
               /\ PkConflict(rake_events, "rake_id", last'.rake_id)) =>
            (last'.ret # None /\ last'.ret[1].rake_id = last'.rake_id)]_vars

\* a rake read back after a later write to the store
C17_Witness ==
    /\ last.op = "db_get_rake"
    /\ last.ret # None
    /\ nOps = 2
    /\ truck_assignments # <<>>

\* the stored records of rake R
RakeRows(R) == SelectSeq(rake_events, LAMBDA r : r.rake_id = R)

\* the activity-log entries about rake R
LogEntriesOf(R) ==
    SelectSeq(activity_log, LAMBDA r : r.message = <<"Inserted/Updated rake", R>>)

\* the writers whose call for rake R has come to pc
WritersAt(R, pc) ==
    {w \in Writers : conc.writers[w].pc = pc /\ conc.writers[w].rake_id = R}

\* C15: create_rake is two steps, each atomic, with no rollback over both:
\* the rake upsert is in the store before the log entry is, and when the log
\* insert fails after the upsert was committed the rake stays stored and the
\* log holds no entry for that call: the entries about a rake are those of
\* the calls that ran to their end.
C15_NoCombinedRollback ==
    (app = "pro" /\ conc.pc # "idle") =>
        \A R \in RakeIds :
            /\ Len(LogEntriesOf(R)) = Cardinality(WritersAt(R, "done"))
            /\ (WritersAt(R, "committed") \cup WritersAt(R, "log_executed")
                    \cup WritersAt(R, "log_failed") \cup WritersAt(R, "done")) # {}
                  => PkConflict(rake_events, "rake_id", R)

\* a call whose log insert failed while the other writer held the lock: its
\* rake record is stored, the log holds no entry about the rake
C15_Witness ==
    /\ app = "pro"
    /\ conc.pc # "idle"
    /\ \E w \in Writers :
          /\ conc.writers[w].pc = "log_failed"
          /\ RakeRows(conc.writers[w].rake_id) = <<conc.writers[w].row>>
          /\ LogEntriesOf(conc.writers[w].rake_id) = <<>>

\* the last committed upsert of rake R, None when there is none
LastCommit(R) ==
    LET cs == SelectSeq(conc.commits, LAMBDA c : c.row.rake_id = R) IN
    IF cs = <<>> THEN None ELSE <<cs[Len(cs)].row>>

\* C16: with two writers upserting concurrently, the store holds for every
\* rake_id written exactly one record, and it is in full the record of the
\* writer whose upsert was committed last.
C16_LastCommitWins ==
    conc.pc # "idle" =>
        \A R \in RakeIds : RakeRows(R) = LastCommit(R)

\* both writers have upserted the same rake with different data and are done
C16_Witness ==
    /\ conc.pc # "idle"
    /\ Len(conc.commits) = 2
    /\ conc.commits[1].row.rake_id = conc.commits[2].row.rake_id
    /\ conc.commits[1].row.fnr # conc.commits[2].row.fnr
    /\ conc.commits[1].writer = "w2"
    /\ \A w \in Writers : conc.writers[w].pc \in {"done", "log_failed"}
    /\ rake_events = <<conc.commits[2].row>>

====
